---- MODULE Spec2Model ----
(***************************************************************************)
(* Structured and record arrays as exercised by the notebook               *)
(* notebooks/02.09-Structured-Data-NumPy.ipynb: a compound dtype is built  *)
(* from one of several specification forms, a zero-filled array of that    *)
(* dtype is allocated, its fields are filled by bulk assignment, and it is *)
(* read by field name, by record position, by boolean mask and through a   *)
(* record-array view.                                                      *)
(*                                                                         *)
(* Strings are sequences of one-character strings, so that a type code can *)
(* be parsed and a value can be truncated.  Floats are counted in tenths   *)
(* (85.5 is 855).  Every scalar is a record [k, s, n]: k is the kind, s    *)
(* the characters of a string, n the number.                               *)
(***************************************************************************)
EXTENDS Integers, Sequences, FiniteSets, TLC

\* Largest record count the model constructs.
MaxRecords == 2

(***************************************************************************)
(* Type codes and dtype construction                                       *)
(***************************************************************************)

DigitVal(c) ==
  CASE c = "0" -> 0 [] c = "1" -> 1 [] c = "2" -> 2 [] c = "3" -> 3
    [] c = "4" -> 4 [] c = "5" -> 5 [] c = "6" -> 6 [] c = "7" -> 7
    [] c = "8" -> 8 [] c = "9" -> 9

DigitChar(d) ==
  CASE d = 0 -> "0" [] d = 1 -> "1" [] d = 2 -> "2" [] d = 3 -> "3"
    [] d = 4 -> "4" [] d = 5 -> "5" [] d = 6 -> "6" [] d = 7 -> "7"
    [] d = 8 -> "8" [] d = 9 -> "9"

RECURSIVE ParseNat(_, _)
ParseNat(s, acc) ==
  IF s = <<>> THEN acc ELSE ParseNat(Tail(s), acc * 10 + DigitVal(Head(s)))

RECURSIVE FormatNat(_)
FormatNat(n) ==
  IF n < 10 THEN <<DigitChar(n)>>
  ELSE Append(FormatNat(n \div 10), DigitChar(n % 10))

\* The byte order a type carries once it is part of a dtype: single-byte and
\* byte-string types have none ("|"), the others default to little endian.
ByteOrderOf(tag, cls, size) ==
  IF cls \in {"S", "V"} \/ size = 1 THEN "|"
  ELSE IF tag \in {"<", ">"} THEN tag
  ELSE "<"

\* 'U10', 'i4', '<f8', 'S10': optional byte-order character, type character,
\* size in bytes (characters for the string types).
ParseTypeCode(code) ==
  LET hasTag == code[1] \in {"<", ">", "|", "="}
      tag    == IF hasTag THEN code[1] ELSE "="
      body   == IF hasTag THEN Tail(code) ELSE code
      cls    == IF body[1] = "a" THEN "S" ELSE body[1]
      size   == ParseNat(Tail(body), 0)
  IN  [order |-> ByteOrderOf(tag, cls, size), cls |-> cls, size |-> size]

FieldDescr(name, code, shape) ==
  LET t == ParseTypeCode(code)
  IN  [name |-> name, order |-> t.order, cls |-> t.cls, size |-> t.size,
       shape |-> shape]

\* 'S10,i4,f8' -> <<'S10', 'i4', 'f8'>>
RECURSIVE SplitCodes(_, _, _)
SplitCodes(s, cur, acc) ==
  IF s = <<>> THEN Append(acc, cur)
  ELSE IF Head(s) = "," THEN SplitCodes(Tail(s), <<>>, Append(acc, cur))
  ELSE SplitCodes(Tail(s), Append(cur, Head(s)), acc)

PlaceholderNameFrom1(k) == "f" \o ToString(k)

\* Name of the k-th field (k counted from 1) of a names-free specification.
PlaceholderName(k) == "f" \o ToString(k - 1)

\* np.dtype(spec) for the specification forms of the notebook.
Normalize(spec) ==
  CASE spec.form = "dict" ->
         [form |-> "dtype",
          fields |-> [k \in 1..Len(spec.names) |->
                        FieldDescr(spec.names[k], spec.formats[k], <<>>)]]
    [] spec.form = "list" ->
         [form |-> "dtype",
          fields |-> [k \in 1..Len(spec.fields) |->
                        LET t == spec.fields[k]
                        IN  FieldDescr(t[1], t[2],
                                       IF Len(t) = 3 THEN t[3] ELSE <<>>)]]
    [] spec.form = "string" ->
         LET codes == SplitCodes(spec.text, <<>>, <<>>)
         IN  [form |-> "dtype",
              fields |-> [k \in 1..Len(codes) |->
                            FieldDescr(PlaceholderName(k), codes[k], <<>>)]]
    [] spec.form = "dtype" -> spec

\* The type code a dtype prints for a field: '<U10', '<i4', 'S10'.
TypeStr(fd) ==
  (IF fd.order = "|" THEN <<>> ELSE <<fd.order>>) \o <<fd.cls>>
    \o FormatNat(fd.size)

\* print(data.dtype): the list-of-tuples form of a dtype.
Descr(dt) ==
  [form |-> "list",
   fields |-> [k \in 1..Len(dt.fields) |->
                 LET fd == dt.fields[k]
                 IN  IF fd.shape = <<>> THEN <<fd.name, TypeStr(fd)>>
                     ELSE <<fd.name, TypeStr(fd), fd.shape>>]]

FieldNames(dt) == {dt.fields[k].name : k \in 1..Len(dt.fields)}

\* Position of the field called name in the record layout.
FieldIndex(dt, name) ==
  CHOOSE k \in 1..Len(dt.fields) : dt.fields[k].name = name

(***************************************************************************)
(* Schema specifications supplied to the model                             *)
(***************************************************************************)

U10 == <<"U", "1", "0">>
S10 == <<"S", "1", "0">>
I4  == <<"i", "4">>
I8  == <<"i", "8">>
F8  == <<"f", "8">>
LEI4 == <<"<", "i", "4">>

PersonNames == <<"name", "age", "weight">>
AnonNames   == <<"f0", "f1", "f2">>

DictSpec(names, formats) ==
  [form |-> "dict", names |-> names, formats |-> formats]

ListSpec(names, formats) ==
  [form |-> "list",
   fields |-> [k \in 1..Len(names) |-> <<names[k], formats[k]>>]]

StringSpec(text) == [form |-> "string", text |-> text]

PersonDict  == DictSpec(PersonNames, <<U10, I4, F8>>)
PersonList  == ListSpec(PersonNames, <<U10, I4, F8>>)
PersonListS == ListSpec(PersonNames, <<S10, I4, F8>>)
PersonDictS == DictSpec(PersonNames, <<S10, I4, F8>>)
PersonListLE == ListSpec(PersonNames, <<U10, LEI4, F8>>)
AnonString  == StringSpec(S10 \o <<",">> \o I4 \o <<",">> \o F8)
AnonList    == ListSpec(AnonNames, <<S10, I4, F8>>)
AnonDict    == DictSpec(AnonNames, <<S10, I4, F8>>)
MatList     == [form |-> "list",
                fields |-> << <<"id", I8>>, <<"mat", F8, <<3, 3>> >> >>]

SchemaSpecs ==
  {PersonDict, PersonList, PersonListS, PersonDictS, PersonListLE,
   AnonString, AnonList, AnonDict, MatList}

\* The two dtype specifications the notebook allocates arrays with.
ArraySpecs == {PersonDict, MatList}

(***************************************************************************)
(* Values                                                                  *)
(***************************************************************************)

PyStr(chars)    == [k |-> "str", s |-> chars, n |-> 0]
PyInt(i)        == [k |-> "int", s |-> <<>>, n |-> i]
PyFloat(tenths) == [k |-> "float", s |-> <<>>, n |-> tenths]

Alice == <<"A", "l", "i", "c", "e">>
Bob   == <<"B", "o", "b">>
Cathy == <<"C", "a", "t", "h", "y">>
Doug  == <<"D", "o", "u", "g">>
\* Eleven characters: one more than a U10 field holds.
Christopher == <<"C", "h", "r", "i", "s", "t", "o", "p", "h", "e", "r">>

ScalarZeroUntyped(fd) ==
  IF fd.cls \in {"U", "S"} THEN PyStr(<<>>) ELSE PyInt(0)

ScalarZero(fd) ==
  CASE fd.cls \in {"U", "S"} -> PyStr(<<>>)
    [] fd.cls \in {"i", "u"} -> PyInt(0)
    [] fd.cls = "f"          -> PyFloat(0)

\* A block of the given shape holding v everywhere; v itself for shape ().
RECURSIVE Block(_, _)
Block(shape, v) ==
  IF shape = <<>> THEN v
  ELSE [j \in 1..Head(shape) |-> Block(Tail(shape), v)]

ZeroValue(fd) == Block(fd.shape, ScalarZero(fd))

ZeroRecord(dt) == [k \in 1..Len(dt.fields) |-> ZeroValue(dt.fields[k])]

\* np.zeros(n, dtype=dt)
ZeroBuffer(dt, n) == [i \in 1..n |-> ZeroRecord(dt)]

Truncate(chars, size) ==
  IF Len(chars) > size THEN SubSeq(chars, 1, size) ELSE chars

TruncDiv(a, b) == IF a >= 0 THEN a \div b ELSE -((-a) \div b)

\* Conversion of one assigned Python value to the field's scalar type.  The
\* numbers the model assigns are far inside the range of i4 and i8.
ScalarCoerce(fd, v) ==
  CASE fd.cls \in {"U", "S"} -> PyStr(Truncate(v.s, fd.size))
    [] fd.cls \in {"i", "u"} ->
         IF v.k = "float" THEN PyInt(TruncDiv(v.n, 10)) ELSE PyInt(v.n)
    [] fd.cls = "f" ->
         IF v.k = "int" THEN PyFloat(v.n * 10) ELSE PyFloat(v.n)

RECURSIVE CoerceBlock(_, _, _)
CoerceBlock(fd, shape, v) ==
  IF shape = <<>> THEN ScalarCoerce(fd, v)
  ELSE [j \in 1..Head(shape) |-> CoerceBlock(fd, Tail(shape), v[j])]

Coerce(fd, v) == CoerceBlock(fd, fd.shape, v)

CanBroadcastExact(len, n) == len = n

\* Array assignment broadcasts: a sequence of the target's length is stored
\* element by element, a sequence of length one is repeated.
CanBroadcast(len, n) == len = n \/ len = 1

Broadcast(values, n) ==
  IF Len(values) = n THEN values ELSE [i \in 1..n |-> values[1]]

StoreColumnReversed(buf, k, fd, values) ==
  LET b == Broadcast(values, Len(buf))
  IN  [i \in 1..Len(buf) |->
         [buf[i] EXCEPT ![k] = Coerce(fd, b[Len(buf) - i + 1])]]

StoreColumnWholeRecord(buf, k, fd, values) ==
  LET b == Broadcast(values, Len(buf))
  IN  [i \in 1..Len(buf) |->
         [j \in 1..Len(buf[i]) |->
            IF j = k THEN Coerce(fd, b[i]) ELSE buf[1][j]]]

\* buf[...][k] = values: store into field position k of every record.
StoreColumn(buf, k, fd, values) ==
  LET b == Broadcast(values, Len(buf))
  IN  [i \in 1..Len(buf) |-> [buf[i] EXCEPT ![k] = Coerce(fd, b[i])]]

PyIndexOffByOne(i, n) == IF i < 0 THEN i + n - 1 ELSE i

\* Python index arithmetic: a negative index counts from the end.
PyIndex(i, n) == IF i < 0 THEN i + n ELSE i

RECURSIVE CompressReversed(_, _)
CompressReversed(buf, mask) ==
  IF buf = <<>> THEN <<>>
  ELSE CompressReversed(Tail(buf), Tail(mask))
         \o (IF Head(mask) THEN <<Head(buf)>> ELSE <<>>)

\* buf[mask]: the records at the True positions, in order.
RECURSIVE Compress(_, _)
Compress(buf, mask) ==
  IF buf = <<>> THEN <<>>
  ELSE (IF Head(mask) THEN <<Head(buf)>> ELSE <<>>)
         \o Compress(Tail(buf), Tail(mask))

\* column < c, element by element (the column is an integer field).
LessThan(col, c) == [i \in 1..Len(col) |-> col[i].n < c]

(***************************************************************************)
(* Inputs                                                                  *)
(***************************************************************************)

SeqsUpTo(S, n) == UNION {[1..len -> S] : len \in 0..n}

InputsFor(fd) ==
  IF fd.shape # <<>> THEN {Block(fd.shape, PyInt(1))}
  ELSE CASE fd.cls \in {"U", "S"} -> {PyStr(Bob), PyStr(Christopher)}
         [] fd.cls \in {"i", "u"} -> {PyInt(25), PyFloat(855)}
         [] fd.cls = "f"          -> {PyFloat(855)}

ValueSeqs(fd) == SeqsUpTo(InputsFor(fd), MaxRecords)

Masks == SeqsUpTo(BOOLEAN, MaxRecords)

Indices == (0 - MaxRecords - 1)..MaxRecords

\* A name no dtype of the model has.
UnknownName == "height"

(***************************************************************************)
(* State                                                                   *)
(***************************************************************************)

VARIABLES
  mem,    \* the allocated buffers, by address: each a sequence of records,
          \* a record being the sequence of its field values in dtype order
  data,   \* the structured array: [base, dtype, shape]
  fview,  \* the field view last obtained by data[name], or NoView
  rec,    \* data_rec, the record-array view of data, or NoRec
  last    \* the last call: its arguments, its status and what it returned

vars == <<mem, data, fview, rec, last>>

NoDtype == [form |-> "dtype", fields |-> <<>>]
NoField == [name |-> "", order |-> "|", cls |-> "V", size |-> 0, shape |-> <<>>]
NoView == [base |-> 0, k |-> 0, fd |-> NoField, shape |-> 0]
NoRec  == [base |-> 0, dtype |-> NoDtype, shape |-> 0]

Call(op, field, index, values, mask, status, value) ==
  [op |-> op, field |-> field, index |-> index, values |-> values,
   mask |-> mask, status |-> status, value |-> value]

\* The values of one field over all records of an array object.
Column(m, d, name) ==
  LET k == FieldIndex(d.dtype, name)
  IN  [i \in 1..d.shape |-> m[d.base][i][k]]

\* The values a field view shows.
ReadView(m, v) == [i \in 1..v.shape |-> m[v.base][i][v.k]]

\* col[i] on a one-dimensional array.
ColumnItem(col, i) == col[PyIndex(i, Len(col)) + 1]

\* r[name] on a record of dtype dt.
RecordField(dt, r, name) == r[FieldIndex(dt, name)]

GetRecordResultMirrored(m, d, i) ==
  LET j == IF i < 0 THEN (0 - i) - 1 ELSE i
  IN  IF 0 <= j /\ j < d.shape
      THEN [status |-> "ok", value |-> m[d.base][j + 1]]
      ELSE [status |-> "IndexError", value |-> <<>>]

\* d[i]: the record at position i, or IndexError.
GetRecordResult(m, d, i) ==
  LET j == PyIndex(i, d.shape)
  IN  IF 0 <= j /\ j < d.shape
      THEN [status |-> "ok", value |-> m[d.base][j + 1]]
      ELSE [status |-> "IndexError", value |-> <<>>]

\* d[mask]: a new array holding copies of the selected records, or an error
\* when the mask does not have one entry per record (NumPy raises IndexError
\* for it; the status carries the name of the specification's error class).
SelectResult(m, d, mask) ==
  IF Len(mask) # d.shape
  THEN [status |-> "ShapeMismatchError", value |-> <<>>]
  ELSE LET records == Compress(m[d.base], mask)
       IN  [status |-> "ok",
            value |-> [dtype |-> d.dtype, shape |-> Len(records),
                       records |-> records]]

(***************************************************************************)
(* Operations                                                              *)
(***************************************************************************)

\* data = np.zeros(n, dtype=spec)
Construct(spec, n) ==
  LET dt == Normalize(spec)
  IN  /\ mem = <<ZeroBuffer(dt, n)>>
      /\ data = [base |-> 1, dtype |-> dt, shape |-> n]
      /\ fview = NoView
      /\ rec = NoRec
      /\ last = Call("construct", "", n, <<>>, <<>>, "ok", spec)

Init == \E spec \in ArraySpecs, n \in 0..MaxRecords : Construct(spec, n)

AssignFieldPartial(op, target, name, values) ==
  LET k  == FieldIndex(target.dtype, name)
      fd == target.dtype.fields[k]
      buf == mem[target.base]
  IN  IF CanBroadcast(Len(values), target.shape)
      THEN /\ mem' = [mem EXCEPT ![target.base] =
                         StoreColumn(buf, k, fd, values)]
           /\ last' = Call(op, name, 0, values, <<>>, "ok", <<>>)
      ELSE /\ mem' = [mem EXCEPT ![target.base] =
                         [i \in 1..Len(buf) |->
                            IF i <= Len(values)
                            THEN [buf[i] EXCEPT ![k] = Coerce(fd, values[i])]
                            ELSE buf[i]]]
           /\ last' = Call(op, name, 0, values, <<>>,
                           "ShapeMismatchError", <<>>)

\* target[name] = values, for target the array or its record-array view.
\* (NumPy raises ValueError when the values cannot be broadcast.)
AssignField(op, target, name, values) ==
  LET k  == FieldIndex(target.dtype, name)
      fd == target.dtype.fields[k]
  IN  IF CanBroadcast(Len(values), target.shape)
      THEN /\ mem' = [mem EXCEPT ![target.base] =
                         StoreColumn(mem[target.base], k, fd, values)]
           /\ last' = Call(op, name, 0, values, <<>>, "ok", <<>>)
      ELSE /\ mem' = mem
           /\ last' = Call(op, name, 0, values, <<>>,
                           "ShapeMismatchError", <<>>)

\* data[name] = values
SetField ==
  \E name \in FieldNames(data.dtype) :
    \E values \in ValueSeqs(data.dtype.fields[FieldIndex(data.dtype, name)]) :
      /\ AssignField("set_field", data, name, values)
      /\ UNCHANGED <<data, fview, rec>>

\* data[name]
GetField ==
  \E name \in FieldNames(data.dtype) \cup {UnknownName} :
    IF name \in FieldNames(data.dtype)
    THEN LET k == FieldIndex(data.dtype, name)
         IN  /\ fview' = [base |-> data.base, k |-> k,
                          fd |-> data.dtype.fields[k], shape |-> data.shape]
             /\ last' = Call("get_field", name, 0, <<>>, <<>>, "ok",
                             Column(mem, data, name))
             /\ UNCHANGED <<mem, data, rec>>
    ELSE /\ last' = Call("get_field", name, 0, <<>>, <<>>, "KeyError", <<>>)
         /\ UNCHANGED <<mem, data, fview, rec>>

\* data[i]
GetRecord ==
  \E i \in Indices :
    LET r == GetRecordResult(mem, data, i)
    IN  /\ last' = Call("get_record", "", i, <<>>, <<>>, r.status, r.value)
        /\ UNCHANGED <<mem, data, fview, rec>>

SelectInPlace ==
  \E mask \in Masks :
    LET r == SelectResult(mem, data, mask)
    IN  /\ last' = Call("select", "", 0, <<>>, mask, r.status, r.value)
        /\ mem' = IF r.status = "ok"
                  THEN [mem EXCEPT ![data.base] = r.value.records]
                  ELSE mem
        /\ UNCHANGED <<data, fview, rec>>

\* data[mask]
Select ==
  \E mask \in Masks :
    LET r == SelectResult(mem, data, mask)
    IN  /\ last' = Call("select", "", 0, <<>>, mask, r.status, r.value)
        /\ UNCHANGED <<mem, data, fview, rec>>

AsAttributeViewCopy ==
  /\ mem' = <<mem[1], mem[data.base]>>
  /\ rec' = [base |-> 2, dtype |-> data.dtype, shape |-> data.shape]
  /\ last' = Call("as_attribute_view", "", 0, <<>>, <<>>, "ok", <<>>)
  /\ UNCHANGED <<data, fview>>

\* data_rec = data.view(np.recarray)
AsAttributeView ==
  /\ rec' = [base |-> data.base, dtype |-> data.dtype, shape |-> data.shape]
  /\ last' = Call("as_attribute_view", "", 0, <<>>, <<>>, "ok", <<>>)
  /\ UNCHANGED <<mem, data, fview>>

\* data_rec.name, data_rec[name]
AttributeRead ==
  /\ rec # NoRec
  /\ \E name \in FieldNames(rec.dtype) :
       last' = Call("attribute_read", name, 0, <<>>, <<>>, "ok",
                    Column(mem, rec, name))
  /\ UNCHANGED <<mem, data, fview, rec>>

\* data_rec.name = values: the assignment is made to the memory the view
\* shares with data.
AttributeWrite ==
  /\ rec # NoRec
  /\ \E name \in FieldNames(rec.dtype) :
       \E values \in ValueSeqs(rec.dtype.fields[FieldIndex(rec.dtype, name)]) :
         /\ CanBroadcast(Len(values), rec.shape)
         /\ AssignField("attribute_write", rec, name, values)
  /\ UNCHANGED <<data, fview, rec>>

\* view[:] = values on the field view obtained from data[name].
FieldViewWrite ==
  /\ fview # NoView
  /\ \E values \in ValueSeqs(fview.fd) :
       /\ CanBroadcast(Len(values), fview.shape)
       /\ mem' = [mem EXCEPT ![fview.base] =
                    StoreColumn(mem[fview.base], fview.k, fview.fd, values)]
       /\ last' = Call("field_view_write", fview.fd.name, 0, values, <<>>,
                       "ok", <<>>)
  /\ UNCHANGED <<data, fview, rec>>

Next ==
  \/ SetField
  \/ GetField
  \/ GetRecord
  \/ Select
  \/ AsAttributeView
  \/ AttributeRead
  \/ AttributeWrite
  \/ FieldViewWrite

Spec == Init /\ [][Next]_vars

\* The arrays of every dtype specification form, read but not written.
InitSchema == \E spec \in SchemaSpecs, n \in 0..MaxRecords : Construct(spec, n)

NextRead ==
  \/ GetField
  \/ GetRecord
  \/ Select
  \/ AsAttributeView
  \/ AttributeRead

SpecSchema == InitSchema /\ [][NextRead]_vars

(***************************************************************************)
(* Properties                                                              *)
(***************************************************************************)

FieldOf(dt, name) == dt.fields[FieldIndex(dt, name)]

Buffer == mem[data.base]

\* C1: after data[f] = v with len(v) equal to the record count, data[f]
\* reads back v element by element, in order, each element converted to the
\* field's type (a string longer than the field is cut to the field's size).
C1_RoundTrip ==
  (last.op = "set_field" /\ last.status = "ok"
     /\ Len(last.values) = data.shape) =>
    LET got == Column(mem, data, last.field)
        fd  == FieldOf(data.dtype, last.field)
    IN  /\ Len(got) = Len(last.values)
        /\ \A i \in 1..Len(got) :
             /\ got[i] = Coerce(fd, last.values[i])
             /\ (fd.shape = <<>> /\ last.values[i].k = "str") =>
                  /\ Len(got[i].s) <= fd.size
                  /\ got[i].s = SubSeq(last.values[i].s, 1, Len(got[i].s))
                  /\ Len(last.values[i].s) <= fd.size
                       => got[i].s = last.values[i].s

C1_Witness ==
  /\ last.op = "set_field" /\ last.status = "ok" /\ last.field = "name"
  /\ data.shape = 2
  /\ last.values = <<PyStr(Christopher), PyStr(Bob)>>
  /\ Column(mem, data, "name")[1].s = SubSeq(Christopher, 1, 10)

\* C2: for every field name and every valid index i, negative ones included,
\* data[name][i] equals data[i][name].
C2_ComposedAccess ==
  \A name \in FieldNames(data.dtype) :
    \A i \in (0 - data.shape)..(data.shape - 1) :
      /\ GetRecordResult(mem, data, i).status = "ok"
      /\ ColumnItem(Column(mem, data, name), i)
           = RecordField(data.dtype, GetRecordResult(mem, data, i).value, name)

C2_Witness ==
  /\ data.shape = 2
  /\ "age" \in FieldNames(data.dtype)
  /\ Column(mem, data, "age") = <<PyInt(25), PyInt(85)>>
  /\ Column(mem, data, "name") = <<PyStr(Bob), PyStr(SubSeq(Christopher, 1, 10))>>

\* The position of the j-th True entry of a mask.
NthTrue(mask, j) ==
  CHOOSE i \in 1..Len(mask) :
    mask[i] /\ Cardinality({t \in 1..i : mask[t]}) = j

\* The notebook's four people.
ExampleArray == [base |-> 1, dtype |-> Normalize(PersonDict), shape |-> 4]

ExampleMem ==
  LET dt == ExampleArray.dtype
      b0 == ZeroBuffer(dt, 4)
      b1 == StoreColumn(b0, 1, dt.fields[1],
              <<PyStr(Alice), PyStr(Bob), PyStr(Cathy), PyStr(Doug)>>)
      b2 == StoreColumn(b1, 2, dt.fields[2],
              <<PyInt(25), PyInt(45), PyInt(37), PyInt(19)>>)
      b3 == StoreColumn(b2, 3, dt.fields[3],
              <<PyFloat(550), PyFloat(855), PyFloat(680), PyFloat(615)>>)
  IN  <<b3>>

ExampleUnder30 ==
  SelectResult(ExampleMem, ExampleArray,
               LessThan(Column(ExampleMem, ExampleArray, "age"), 30))

\* C3: data[mask], for a mask with one entry per record, has as many records
\* as the mask has True entries, and they are the records of data at the True
\* positions in their original order; on the notebook's four people the mask
\* data['age'] < 30 selects Alice and Doug, in that order.
C3_MaskFiltering ==
  /\ (last.op = "select" /\ Len(last.mask) = data.shape) =>
       /\ last.status = "ok"
       /\ last.value.shape = Cardinality({i \in 1..Len(last.mask) : last.mask[i]})
       /\ Len(last.value.records) = last.value.shape
       /\ \A j \in 1..last.value.shape :
            last.value.records[j] = Buffer[NthTrue(last.mask, j)]
  /\ ExampleUnder30.status = "ok"
  /\ ExampleUnder30.value.shape = 2
  /\ ExampleUnder30.value.records =
       << <<PyStr(Alice), PyInt(25), PyFloat(550)>>,
          <<PyStr(Doug), PyInt(19), PyFloat(615)>> >>

C3_Witness ==
  /\ last.op = "select" /\ last.status = "ok"
  /\ last.mask = <<FALSE, TRUE>>
  /\ Buffer[1] # Buffer[2]
  /\ last.value.records = <<Buffer[2]>>

\* C4: on an array of N records data[i] for i in [-N, -1] is data[N + i], and
\* an index outside [-N, N-1] raises IndexError (so data[-1] of an empty
\* array does).
C4_RecordIndex ==
  last.op = "get_record" =>
    IF (0 - data.shape) <= last.index /\ last.index <= data.shape - 1
    THEN /\ last.status = "ok"
         /\ last.index < 0 =>
              /\ last.value = Buffer[data.shape + last.index + 1]
              /\ GetRecordResult(mem, data, data.shape + last.index)
                   = [status |-> "ok", value |-> last.value]
         /\ last.index >= 0 => last.value = Buffer[last.index + 1]
    ELSE last.status = "IndexError"

C4_Witness ==
  /\ last.op = "get_record" /\ last.index = -1 /\ last.status = "ok"
  /\ data.shape = 2
  /\ Buffer[1] # Buffer[2]
  /\ last.value = Buffer[2]

\* C5: the field view and the record-array view read the array's own
\* memory: whatever was written, and through whichever of the three, every
\* field of every record reads the same through data[name], through the
\* field view and through data_rec.name.
C5_ViewsShareStorage ==
  /\ fview # NoView =>
       /\ fview.shape = data.shape
       /\ \A i \in 1..data.shape :
            ReadView(mem, fview)[i] = Column(mem, data, fview.fd.name)[i]
  /\ rec # NoRec =>
       /\ rec.shape = data.shape
       /\ \A name \in FieldNames(data.dtype) :
            \A i \in 1..data.shape :
              Column(mem, rec, name)[i] = Column(mem, data, name)[i]

C5_Witness ==
  /\ fview # NoView /\ rec # NoRec
  /\ last.op = "set_field" /\ last.status = "ok" /\ last.field = "age"
  /\ fview.fd.name = "age"
  /\ ReadView(mem, fview) = <<PyInt(25), PyInt(85)>>
  /\ Column(mem, rec, "age") = <<PyInt(25), PyInt(85)>>

KindOf(cls) ==
  CASE cls \in {"U", "S"} -> "str"
    [] cls \in {"i", "u"} -> "int"
    [] cls = "f"          -> "float"

\* v is a value of the field's type: a scalar of its kind (a string no longer
\* than its size), or a block of its shape of such scalars.
RECURSIVE HasShapeAndKind(_, _, _)
HasShapeAndKind(fd, shape, v) ==
  IF shape = <<>>
  THEN /\ v.k = KindOf(fd.cls)
       /\ v.k = "str" => (v.n = 0 /\ Len(v.s) <= fd.size)
       /\ v.k # "str" => v.s = <<>>
  ELSE /\ DOMAIN v = 1..Head(shape)
       /\ \A j \in 1..Head(shape) : HasShapeAndKind(fd, Tail(shape), v[j])

HasType(fd, v) == HasShapeAndKind(fd, fd.shape, v)

RecordHasSchema(dt, r) ==
  /\ Len(r) = Len(dt.fields)
  /\ \A k \in 1..Len(r) : HasType(dt.fields[k], r[k])

C6_Shaped ==
  /\ Len(Buffer) = data.shape
  /\ \A i \in 1..Len(Buffer) : RecordHasSchema(data.dtype, Buffer[i])
  /\ last.op = "construct" =>
       (data.shape = last.index /\ data.dtype = Normalize(last.value))

C6_Step ==
  /\ data' = data
  /\ Len(mem'[data'.base]) = Len(mem[data.base])

\* C6: the array np.zeros(n, dtype) returned keeps exactly n records, each of
\* that dtype, through every operation, whether it succeeds or fails.
C6_FixedShape == [](C6_Shaped) /\ [][C6_Step]_vars

C6_Witness ==
  /\ last.op = "select" /\ last.status = "ok"
  /\ last.value.shape = 1
  /\ data.shape = 2 /\ Len(Buffer) = 2
  /\ "name" \in FieldNames(data.dtype)
  /\ Column(mem, data, "name") = <<PyStr(Bob), PyStr(Bob)>>

ZeroF == PyFloat(0)

\* C7: np.zeros(n, dtype) has n records; each is a tuple with one value per
\* field, in dtype order, of the field's type and equal to its zero; a
\* ('mat', 'f8', (3, 3)) field of a one-record array reads as a 3x3 block of
\* zeros.
C7_ConstructZero ==
  last.op = "construct" =>
    /\ data.shape = last.index
    /\ \A i \in 0..(data.shape - 1) :
         LET r == GetRecordResult(mem, data, i)
         IN  /\ r.status = "ok"
             /\ RecordHasSchema(data.dtype, r.value)
             /\ \A k \in 1..Len(data.dtype.fields) :
                  LET fd == data.dtype.fields[k]
                  IN  /\ fd.shape = <<>> =>
                           (r.value[k].n = 0 /\ r.value[k].s = <<>>)
                      /\ fd.shape = <<3, 3>> =>
                           r.value[k] = << <<ZeroF, ZeroF, ZeroF>>,
                                           <<ZeroF, ZeroF, ZeroF>>,
                                           <<ZeroF, ZeroF, ZeroF>> >>
    /\ (last.value = MatList /\ data.shape = 1) =>
         ColumnItem(Column(mem, data, "mat"), 0)
           = << <<ZeroF, ZeroF, ZeroF>>, <<ZeroF, ZeroF, ZeroF>>,
                <<ZeroF, ZeroF, ZeroF>> >>

C7_Witness ==
  /\ last.op = "construct" /\ last.value = MatList /\ data.shape = 1
  /\ Len(Buffer) = 1 /\ Len(Buffer[1]) = 2

\* The names, type codes and shapes a specification lists, in order, read
\* off its form.
RawFields(spec) ==
  CASE spec.form = "dict" ->
         [k \in 1..Len(spec.names) |-> <<spec.names[k], spec.formats[k], <<>> >>]
    [] spec.form = "list" ->
         [k \in 1..Len(spec.fields) |->
            <<spec.fields[k][1], spec.fields[k][2],
              IF Len(spec.fields[k]) = 3 THEN spec.fields[k][3] ELSE <<>> >>]
    [] spec.form = "string" ->
         LET codes == SplitCodes(spec.text, <<>>, <<>>)
         IN  [k \in 1..Len(codes) |-> <<AnonNames[k], codes[k], <<>> >>]

\* C8: specifications in the mapping form, the list-of-tuples form and the
\* type-only string form (fields named f0, f1, ...) that list the same names,
\* types and order give the same dtype, and building a dtype from a dtype, or
\* from the list form it prints, gives that dtype again.
C8_CanonicalSchema ==
  last.op = "construct" =>
    /\ \A s \in SchemaSpecs :
         RawFields(s) = RawFields(last.value) => Normalize(s) = data.dtype
    /\ Normalize(data.dtype) = data.dtype
    /\ Normalize(Descr(data.dtype)) = data.dtype
    /\ [k \in 1..Len(data.dtype.fields) |-> data.dtype.fields[k].name]
         = [k \in 1..Len(data.dtype.fields) |-> RawFields(last.value)[k][1]]

C8_Witness ==
  /\ last.op = "construct" /\ last.value = AnonString
  /\ RawFields(AnonList) = RawFields(last.value)
  /\ RawFields(AnonDict) = RawFields(last.value)
  /\ data.dtype = Normalize(AnonList)
  /\ data.dtype.fields[1].name = "f0"

FullSeqs(fd, n) == {v \in ValueSeqs(fd) : Len(v) = n}

C10_Frame ==
  (last'.op = "set_field" /\ last'.status = "ok") =>
    \A g \in FieldNames(data.dtype) \ {last'.field} :
      Column(mem', data', g) = Column(mem, data, g)

C10_OrderFree ==
  \A kf \in 1..Len(data.dtype.fields), kg \in 1..Len(data.dtype.fields) :
    kf # kg =>
      LET ff == data.dtype.fields[kf]
          fg == data.dtype.fields[kg]
      IN  \A v \in FullSeqs(ff, data.shape), w \in FullSeqs(fg, data.shape) :
            LET vw == StoreColumn(StoreColumn(Buffer, kf, ff, v), kg, fg, w)
                wv == StoreColumn(StoreColumn(Buffer, kg, fg, w), kf, ff, v)
            IN  /\ vw = wv
                /\ \A i \in 1..data.shape :
                     /\ vw[i][kf] = Coerce(ff, v[i])
                     /\ vw[i][kg] = Coerce(fg, w[i])

\* C10: a successful data[f] = v leaves every other field of every record
\* as it was, so assignments to distinct fields leave each field holding the
\* sequence assigned to it, in whichever order they are made.
C10_FrameOfAssignment == [](C10_OrderFree) /\ [][C10_Frame]_vars

C10_Witness ==
  /\ last.op = "set_field" /\ last.status = "ok" /\ last.field = "weight"
  /\ data.shape = 2
  /\ Column(mem, data, "name") = <<PyStr(Bob), PyStr(SubSeq(Christopher, 1, 10))>>
  /\ Column(mem, data, "age") = <<PyInt(85), PyInt(25)>>
  /\ Column(mem, data, "weight") = <<PyFloat(855), PyFloat(855)>>

ReadOps ==
  {"get_field", "get_record", "select", "as_attribute_view", "attribute_read"}

C11_Step ==
  (last'.op \in ReadOps \/ last'.status # "ok") =>
    /\ data' = data
    /\ mem'[data'.base] = mem[data.base]
    /\ (last'.op = "select" /\ last'.status = "ok") =>
         /\ SelectResult(mem', data', last'.mask).status = "ok"
         /\ SelectResult(mem', data', last'.mask).value = last'.value

\* C11: data[name], data[i], data[mask], data.view(np.recarray), a read
\* through the view, and every call that fails (IndexError, KeyError, shape
\* mismatch) leave the records of data as they were; after data[mask] the
\* same mask selects the same records from data again.
C11_FrameOfReads == [][C11_Step]_vars

C11_Witness ==
  /\ last.op = "set_field" /\ last.status = "ShapeMismatchError"
  /\ last.field = "name" /\ Len(last.values) = 2
  /\ data.shape = 1
  /\ Column(mem, data, "name") = <<PyStr(Bob)>>
  /\ Column(mem, data, "age") = <<PyInt(25)>>

====
